---- MODULE Spec2Model ----
(***************************************************************************)
(* A model of the ELP2000 moon position library:                           *)
(*   src/src/ELP2000Calculator.js  calc, estimateMaxError,                 *)
(*                                 makeTruncationNums,                     *)
(*                                 makeMeanTruncationNums,                 *)
(*                                 makeSafeTruncationNums                  *)
(*   src/unnamed/part_000          ELP2000MoonGECC (getters, setTruncation,*)
(*                                 setMaxError, accuracy)                  *)
(*                                                                         *)
(* Numbers.  JavaScript doubles are modelled in fixed point: a value v is  *)
(* the integer v * Unit, and every product is rounded down to that grid    *)
(* (MulQ).  Amplitudes are whole numbers.  A JDateRepository is its Julian *)
(* day number in hundredths of a day.  Arrays keep the source's 0-based    *)
(* indices (Elem, Upd).                                                    *)
(***************************************************************************)
EXTENDS Integers, Sequences, FiniteSets, TLC

VARIABLES
    jdr,           \* calculator.private.jdr: the calculator's time context
    pc,            \* position of the operation in progress
    dataArray,     \* the dataArray argument of the call in progress
    tNumsArg,      \* the tNumsArray argument of the call in progress
    argMaxError,   \* the maximumError argument as the caller passed it
    loop,          \* the locals of the loop of the call in progress
    ret,           \* the array the call returned
    value,         \* the number the call returned
    moon           \* the ELP2000MoonGECC object

vars == <<jdr, pc, dataArray, tNumsArg, argMaxError, loop, ret, value, moon>>

-----------------------------------------------------------------------------
(* Bounds of the model *)

\* longest block (number of terms) of a model
MaxTerms == 3
\* largest number of blocks of a model in the optimizer runs
MaxBlocks == 2
\* the optimizer's iteration counter is followed up to TotalTerms + T + MaxExtra
MaxExtra == 2

-----------------------------------------------------------------------------
(* Fixed-point arithmetic standing for the doubles *)

\* a value v is stored as v * Unit
Unit == 1000

Abs(x) == IF x < 0 THEN -x ELSE x

Min(a, b) == IF a < b THEN a ELSE b

\* x * y of two fixed-point values, rounded down to the grid
MulQ(x, y) == (y \div Unit) * x + ((y % Unit) * x) \div Unit

\* Math.sqrt(n) for a term count n, rounded down to the grid
SqrtTable ==
    [n \in 0..(MaxTerms + 2) |->
        CHOOSE r \in 0..(3 * Unit) :
            r * r <= n * Unit * Unit /\ (r + 1) * (r + 1) > n * Unit * Unit]

Sqrt(n) == SqrtTable[n]

\* Math.ceil(a / b) for b > 0
CeilDiv(a, b) == -((-a) \div b)

-----------------------------------------------------------------------------
(* Arrays with the source's 0-based indices *)

Elem(arr, k) == arr[k + 1]

Upd(arr, k, v) == [arr EXCEPT ![k + 1] = v]

Zeros(n) == [k \in 1..n |-> 0]

-----------------------------------------------------------------------------
(* The time context: @behaver/jdate's JDateRepository, by its use *)

\* JD 2451545.0, the epoch J2000, in hundredths of a day
J2000 == 245154500

\* a JDateRepository of `c` Julian centuries after J2000
JDOfCentury(c) == J2000 + c * 3652500

\* jdr.JDEC: Julian centuries since J2000 (fixed point)
JDEC(jd) == ((jd - J2000) * 2) \div 7305

RECURSIVE PowQ(_, _)
PowQ(t, k) == IF k = 0 THEN Unit ELSE MulQ(PowQ(t, k - 1), t)

\* jdr.JDECP(k): the k-th power of JDEC
JDECP(jd, k) == PowQ(JDEC(jd), k)

-----------------------------------------------------------------------------
(* Series models.  A term is <<amplitude, phase0, .., phase4>>, the phases *)
(* counted in quarter turns; a block is a sequence of terms, a model a     *)
(* sequence of blocks.                                                     *)

\* amplitude of term j of the three series the blocks are cut from
SeriesAmp(s, j) ==
    CASE s = "fast" -> (IF j = 0 THEN 10 ELSE IF j = 1 THEN 3 ELSE 1)
      [] s = "slow" -> (IF j < 9 THEN 10 - j ELSE 1)
      [] OTHER      -> 5

SeriesNames == {"fast", "slow", "flat"}

\* the first n terms of series s: amplitudes in non-increasing order
BlockOf(s, n) == [j \in 1..n |-> <<SeriesAmp(s, j - 1), j - 1, 1, 0, 0, 0>>]

Blocks == {BlockOf(s, n) : s \in SeriesNames, n \in 1..MaxTerms}

\* the models: 1..MaxBlocks non-empty blocks
Models == UNION {[1..T -> Blocks] : T \in 1..MaxBlocks}

\* the times of the direct calls: J2000 itself, a century before and after
Times == {JDOfCentury(c) : c \in {-1, 0, 1}}

\* the error budgets of the direct calls (fixed point)
Budgets == {0, 5 * Unit, 15 * Unit, 25 * Unit}

\* an absent truncation array, and an absent entry of one
Undefined == <<-1>>

UndefinedEntry == -1

\* tNumsArray[i], undefined past the end of the array or of an absent array
Entry(tNumsArray, i) ==
    IF tNumsArray = Undefined \/ i >= Len(tNumsArray)
    THEN UndefinedEntry
    ELSE Elem(tNumsArray, i)

-----------------------------------------------------------------------------
(* calc and estimateMaxError *)

\* a variant of TermCount that takes an entry 0 for an absent one
TermCountZeroAsAll(data, tNumsArray, i) ==
    IF Entry(tNumsArray, i) # UndefinedEntry /\ Entry(tNumsArray, i) # 0
    THEN Min(Entry(tNumsArray, i), Len(Elem(data, i)))
    ELSE Len(Elem(data, i))

\* the number of terms of block i that calc and estimateMaxError use
TermCount(data, tNumsArray, i) ==
    IF Entry(tNumsArray, i) # UndefinedEntry
    THEN Min(Entry(tNumsArray, i), Len(Elem(data, i)))
    ELSE Len(Elem(data, i))

\* Math.cos of an angle in quarter turns, taken at the nearest quarter turn
Cos(a) ==
    LET q == ((a + Unit \div 2) \div Unit) % 4
    IN  CASE q = 0 -> Unit
          [] q = 2 -> -Unit
          [] OTHER -> 0

\* amplitude * cos(phase) of one term at time jd; t4, JDECP(4) / 1e8, is
\* taken as (JDECP(3) / 1e4) * JDEC / 1e4
TermValue(term, jd) ==
    LET t1 == JDEC(jd)
        t2 == JDECP(jd, 2) \div 10000
        t3 == JDECP(jd, 3) \div 100000000
        t4 == MulQ(JDECP(jd, 3) \div 10000, JDEC(jd)) \div 10000
        A  == term[2] * Unit + term[3] * t1 + term[4] * t2
              + term[5] * t3 + term[6] * t4
    IN  term[1] * Cos(A)

RECURSIVE BlockSum(_, _, _)
\* the sum of the first n terms of a block
BlockSum(block, n, jd) ==
    IF n = 0 THEN 0
    ELSE BlockSum(block, n - 1, jd) + TermValue(block[n], jd)

RECURSIVE CalcFrom(_, _, _, _)
CalcFrom(data, tNumsArray, jd, i) ==
    IF i >= Len(data) THEN 0
    ELSE MulQ(BlockSum(Elem(data, i), TermCount(data, tNumsArray, i), jd),
              JDECP(jd, i))
         + CalcFrom(data, tNumsArray, jd, i + 1)

\* calculator.calc(dataArray, tNumsArray) at the calculator's time jd
calc(data, tNumsArray, jd) == CalcFrom(data, tNumsArray, jd, 0)

\* a variant of Accuracy that reads the amplitude of the block's first term
AccuracyOfFirstTerm(data, i, n, jd) ==
    MulQ(Sqrt(n) * Elem(Elem(data, i), 0)[1], JDECP(jd, i))

\* sqrt(n) * A * t^i for n terms of block i, A the n-th term's amplitude
Accuracy(data, i, n, jd) ==
    MulQ(Sqrt(n) * Elem(Elem(data, i), n - 1)[1], JDECP(jd, i))

RECURSIVE EstimateFrom(_, _, _, _)
EstimateFrom(data, tNumsArray, jd, i) ==
    IF i >= Len(data) THEN 0
    ELSE (IF TermCount(data, tNumsArray, i) = 0 THEN 0
          ELSE Accuracy(data, i, TermCount(data, tNumsArray, i), jd))
         + EstimateFrom(data, tNumsArray, jd, i + 1)

\* calculator.estimateMaxError(dataArray, tNumsArray) at time jd
estimateMaxError(data, tNumsArray, jd) ==
    2 * EstimateFrom(data, tNumsArray, jd, 0)

-----------------------------------------------------------------------------
(* makeTruncationNums: the loop, one iteration at a time *)

\* the locals after `for (k ...)` and `let i = 0 ... item = 0`
OptStart(data, maximumError) ==
    [i |-> 0, item |-> 0,
     tNumsArray |-> Zeros(Len(data)),
     reductionsArray |-> Zeros(Len(data)),
     accuracysArray |-> Zeros(Len(data)),
     accuracysSum |-> 0,
     maximumError |-> maximumError,
     exit |-> "none"]

RECURSIVE ArgMaxFrom(_, _, _, _)
\* the scan `for (j ...) if (reductionsArray[j] > maxReduction)`
ArgMaxFrom(reductionsArray, j, maxReduction, nextItem) ==
    IF j >= Len(reductionsArray) THEN nextItem
    ELSE IF Elem(reductionsArray, j) > maxReduction
         THEN ArgMaxFrom(reductionsArray, j + 1, Elem(reductionsArray, j), j)
         ELSE ArgMaxFrom(reductionsArray, j + 1, maxReduction, nextItem)

NextItem(reductionsArray) == ArgMaxFrom(reductionsArray, 0, 0, 0)

\* a variant of Bump that increments in the seeding pass as well
BumpInSeeding(tNumsArray, i, T, nextItem) ==
    Upd(tNumsArray, nextItem, Elem(tNumsArray, nextItem) + 1)

\* the seeding pass leaves tNumsArray alone: only `if (i > T - 1)` increments
Bump(tNumsArray, i, T, nextItem) ==
    IF i > T - 1
    THEN Upd(tNumsArray, nextItem, Elem(tNumsArray, nextItem) + 1)
    ELSE tNumsArray

\* a variant of Reached that tests the budget from iteration T on
ReachedFromT(i, T, accuracysSum, maximumError) ==
    i >= T /\ Abs(accuracysSum) <= maximumError

\* the test of the first break: `i > T && Math.abs(accuracysSum) <= maximumError`
Reached(i, T, accuracysSum, maximumError) ==
    i > T /\ Abs(accuracysSum) <= maximumError

\* one iteration of `while (1)` from the locals st; exit tells how it left
OptStep(data, jd, st) ==
    LET T      == Len(data)
        i      == st.i
        item   == IF i < T THEN i % T ELSE IF i = T THEN 0 ELSE st.item
        tn1    == IF i = T
                  THEN Upd(st.tNumsArray, 0, Elem(st.tNumsArray, 0) + 1)
                  ELSE st.tNumsArray
        tNum0  == Elem(tn1, item) + 1
        gone   == tNum0 - 1 < 0 \/ tNum0 - 1 >= Len(Elem(data, item))
        tn2    == IF gone THEN Upd(tn1, item, Elem(tn1, item) - 1) ELSE tn1
        tNum   == IF gone THEN tNum0 - 1 ELSE tNum0
        throws == tNum - 1 < 0 \/ tNum - 1 >= Len(Elem(data, item))
    IN  IF throws
        THEN [st EXCEPT !.item = item, !.tNumsArray = tn2, !.exit = "throw",
                        !.reductionsArray = Upd(st.reductionsArray, item, 0)]
        ELSE
    LET accuracy  == Accuracy(data, item, tNum, jd)
        old       == Elem(st.accuracysArray, item)
        sum1      == IF i < T THEN st.accuracysSum + accuracy
                     ELSE st.accuracysSum
        reduction == Abs(IF old # 0 THEN old - accuracy ELSE accuracy)
        red       == Upd(st.reductionsArray, item, reduction)
        nextItem  == IF i > T - 1 THEN NextItem(red) ELSE 0
        tn3       == Bump(tn2, i, T, nextItem)
        sum2      == IF i > T - 1 THEN sum1 - (old - accuracy) ELSE sum1
        accs      == Upd(st.accuracysArray, item, accuracy)
        trueMaxError == estimateMaxError(data, tn3, jd)
    IN  IF Reached(i, T, sum2, st.maximumError)
        THEN [i |-> i, item |-> item, tNumsArray |-> tn3,
              reductionsArray |-> red, accuracysArray |-> accs,
              accuracysSum |-> sum2,
              maximumError |->
                  IF trueMaxError > st.maximumError
                  THEN st.maximumError
                       - ((trueMaxError - st.maximumError) * 4) \div 3
                  ELSE st.maximumError,
              exit |-> "reached"]
        ELSE IF Elem(tn3, T - 1) = Len(Elem(data, T - 1))
        THEN [i |-> i, item |-> item, tNumsArray |-> tn3,
              reductionsArray |-> red, accuracysArray |-> accs,
              accuracysSum |-> sum2, maximumError |-> st.maximumError,
              exit |-> "forced"]
        ELSE [i |-> i + 1, item |-> nextItem, tNumsArray |-> tn3,
              reductionsArray |-> red, accuracysArray |-> accs,
              accuracysSum |-> sum2, maximumError |-> st.maximumError,
              exit |-> "none"]

\* the number of terms of a model
RECURSIVE TotalTerms(_)
TotalTerms(data) ==
    IF data = <<>> THEN 0 ELSE Len(Head(data)) + TotalTerms(Tail(data))

\* how far the iteration counter of a run over `data` is followed
IterCap(data) == TotalTerms(data) + Len(data) + MaxExtra

-----------------------------------------------------------------------------
(* makeTruncationNums as one call, for its callers *)

\* from iteration T + 1 on an iteration does not read i: one that changes
\* nothing but i is repeated for ever
Repeats(data, jd, st) ==
    /\ st.i > Len(data)
    /\ OptStep(data, jd, st) = [st EXCEPT !.i = st.i + 1]

\* the one element of a one-element set; `Only({e(x) : x \in {v}})` is e(v)
\* with v computed once
Only(S) == CHOOSE x \in S : TRUE

RECURSIVE OptRun(_, _, _)
\* the locals at the exit of the loop; exit "never" when it has none
OptRun(data, jd, st) ==
    IF st.exit # "none" THEN st
    ELSE IF Repeats(data, jd, st) \/ st.i > IterCap(data)
         THEN [st EXCEPT !.exit = "never"]
         ELSE Only({OptRun(data, jd, next) : next \in {OptStep(data, jd, st)}})

\* calculator.makeTruncationNums(dataArray, maximumError) at time jd:
\* how the call ends ("returned", "thrown", "never") and the array returned
makeTruncationNums(data, maximumError, jd) ==
    IF maximumError < 0 THEN [end |-> "thrown", tNumsArray |-> Undefined]
    ELSE Only({[end |-> CASE st.exit = "throw" -> "thrown"
                          [] st.exit = "never" -> "never"
                          [] OTHER             -> "returned",
                tNumsArray |-> st.tNumsArray] :
               st \in {OptRun(data, jd, OptStart(data, maximumError))}})

-----------------------------------------------------------------------------
(* makeMeanTruncationNums and makeSafeTruncationNums *)

\* `let n = 100`: the number of sampled times
SampleCount == 100

\* `let jd0 = 260732`, in hundredths of a day
SampleStart == 26073200

\* `let t = (3912458 - 260732) / n`, in hundredths of a day
SampleStep == (391245800 - 26073200) \div SampleCount

\* `new JDateRepository(jd0 + i * t)`
SampleTime(i) == SampleStart + i * SampleStep

\* the whole number a sum of counts is turned into: Math.ceil(sum / n)
MeanOf(sum) == CeilDiv(sum, SampleCount)

RECURSIVE SumOfSamples(_, _, _, _)
\* the sum of tNumsArray[j] over the samples lo .. hi - 1
SumOfSamples(samples, j, lo, hi) ==
    IF hi <= lo THEN 0
    ELSE IF hi = lo + 1 THEN Elem(samples[lo].tNumsArray, j)
    ELSE SumOfSamples(samples, j, lo, (lo + hi) \div 2)
         + SumOfSamples(samples, j, (lo + hi) \div 2, hi)

\* the samples at which makeTruncationNums did not return
Stuck(samples) == {i \in DOMAIN samples : samples[i].end # "returned"}

\* the least number of a non-empty set of numbers
Least(S) == CHOOSE x \in S : \A y \in S : x <= y

\* what the first loop of makeMeanTruncationNums leaves, from the outcome of
\* makeTruncationNums at each sample: how the loop ends, the sums and the
\* calculator's jdr at that point (the sample it stopped at)
LoopOver(data, samples) ==
    IF Stuck(samples) # {}
    THEN [end |-> samples[Least(Stuck(samples))].end, sumsArray |-> <<>>,
          jdr |-> SampleTime(Least(Stuck(samples)))]
    ELSE [end |-> "returned",
          sumsArray |-> [j \in 1..Len(data) |->
                            SumOfSamples(samples, j - 1, 0, SampleCount)],
          jdr |-> SampleTime(SampleCount - 1)]

\* the first loop of makeMeanTruncationNums
MeanLoop(data, maximumError) ==
    Only({LoopOver(data, samples) :
          samples \in {[i \in 0..(SampleCount - 1) |->
                          makeTruncationNums(data, maximumError, SampleTime(i))]}})

\* the time context a call of makeMeanTruncationNums leaves in the
\* calculator: the source assigns this.jdr for each sample and never
\* restores it
JdrAfterMean(before, after) == after

\* calculator.makeMeanTruncationNums(dataArray, maximumError): how the call
\* ends, the array returned and the calculator's jdr afterwards
makeMeanTruncationNums(data, maximumError, jd) ==
    Only({[end |-> r.end,
           tNumsArray |-> IF r.end = "returned"
                          THEN [j \in 1..Len(r.sumsArray) |-> MeanOf(r.sumsArray[j])]
                          ELSE Undefined,
           jdr |-> JdrAfterMean(jd, r.jdr)] :
          r \in {MeanLoop(data, maximumError)}})

\* `for (var i = 0; i < 5; i++)`
SafeRounds == 5

\* a variant of Halve that keeps the budget
KeepBudget(maximumError) == maximumError

\* `maximumError = maximumError / 2`
Halve(maximumError) == maximumError \div 2

\* the locals of makeSafeTruncationNums before its loop
SafeStart(maximumError) ==
    [i |-> 0, maximumError |-> maximumError, tNumsArray |-> Undefined,
     exit |-> "none", history |-> <<>>]

\* one iteration of the loop of makeSafeTruncationNums from the locals st at
\* calculator time jd: the new locals (history: the budget, plan and estimate
\* of each iteration so far) and the calculator's jdr
\* the rest of an iteration, from the averager's outcome r and the estimate:
\* `if (trueMaxError > maximumError) maximumError = maximumError / 2; else
\* break;` (history: the budget, plan and estimate of each iteration so far)
SafeRound(data, st, r, trueMaxError) ==
    IF r.end # "returned"
    THEN [st |-> [st EXCEPT !.exit = r.end], jdr |-> r.jdr]
    ELSE IF trueMaxError > st.maximumError
    THEN [st |-> [i |-> st.i + 1,
                  maximumError |-> Halve(st.maximumError),
                  tNumsArray |-> r.tNumsArray,
                  exit |-> IF st.i + 1 < SafeRounds THEN "none"
                           ELSE "returned",
                  history |-> Append(st.history,
                                     [maximumError |-> st.maximumError,
                                      tNumsArray |-> r.tNumsArray,
                                      trueMaxError |-> trueMaxError])],
          jdr |-> r.jdr]
    ELSE [st |-> [i |-> st.i,
                  maximumError |-> st.maximumError,
                  tNumsArray |-> r.tNumsArray,
                  exit |-> "returned",
                  history |-> Append(st.history,
                                     [maximumError |-> st.maximumError,
                                      tNumsArray |-> r.tNumsArray,
                                      trueMaxError |-> trueMaxError])],
          jdr |-> r.jdr]

\* `tNumsArray = this.makeMeanTruncationNums(...)` and
\* `trueMaxError = this.estimateMaxError(dataArray, tNumsArray)`, the latter
\* at the jdr the former left, then the rest of the iteration
SafeStep(data, jd, st) ==
    Only({SafeRound(data, st, r,
                    IF r.end = "returned"
                    THEN Only({estimateMaxError(data, r.tNumsArray, r.jdr)})
                    ELSE 0) :
          r \in {makeMeanTruncationNums(data, st.maximumError, jd)}})

RECURSIVE SafeRun(_, _)
\* the loop of makeSafeTruncationNums from the locals and jdr in n
SafeRun(data, n) ==
    IF n.st.exit # "none" THEN n
    ELSE Only({SafeRun(data, next) : next \in {SafeStep(data, n.jdr, n.st)}})

\* calculator.makeSafeTruncationNums(dataArray, maximumError)
makeSafeTruncationNums(data, maximumError, jd) ==
    Only({[end |-> r.st.exit, tNumsArray |-> r.st.tNumsArray, jdr |-> r.jdr] :
          r \in {SafeRun(data, [st |-> SafeStart(maximumError), jdr |-> jd])}})

-----------------------------------------------------------------------------
(* The optimizer called directly: calculator.makeTruncationNums *)

NoLoop == [i |-> 0, item |-> 0, tNumsArray |-> <<>>, reductionsArray |-> <<>>,
           accuracysArray |-> <<>>, accuracysSum |-> 0, maximumError |-> 0,
           exit |-> "none"]

NoMoon == [jdate |-> J2000, cache |-> <<>>, accuracy |-> "complete"]

InitOpt ==
    /\ jdr \in Times
    /\ pc = "idle"
    /\ dataArray = <<>>
    /\ argMaxError = 0
    /\ loop = NoLoop
    /\ ret = Undefined
    /\ tNumsArg = Undefined
    /\ value = 0
    /\ moon = NoMoon

\* makeTruncationNums(dataArray, maximumError): the parameter check and setup
OptCall ==
    /\ pc = "idle"
    /\ \E data \in Models, maximumError \in Budgets \cup {-Unit} :
        /\ dataArray' = data
        /\ argMaxError' = maximumError
        /\ IF maximumError < 0
           THEN pc' = "thrown" /\ loop' = loop
           ELSE pc' = "loop" /\ loop' = OptStart(data, maximumError)
    /\ UNCHANGED <<jdr, tNumsArg, ret, value, moon>>

\* one iteration of the loop; a break returns tNumsArray
OptIter ==
    /\ pc = "loop"
    /\ loop.i <= IterCap(dataArray)
    /\ LET st == OptStep(dataArray, jdr, loop)
       IN  /\ loop' = st
           /\ pc' = CASE st.exit = "none"  -> "loop"
                      [] st.exit = "throw" -> "thrown"
                      [] OTHER             -> "returned"
           /\ ret' = IF st.exit \in {"reached", "forced"}
                     THEN st.tNumsArray ELSE ret
    /\ UNCHANGED <<jdr, dataArray, tNumsArg, argMaxError, value, moon>>

NextOpt == OptCall \/ OptIter

SpecOpt == InitOpt /\ [][NextOpt]_vars

-----------------------------------------------------------------------------
(* Claims about makeTruncationNums, checked under SpecOpt *)

\* some block of the model is used in full by the plan
SomeBlockFull(data, tNumsArray) ==
    \E b \in 0..(Len(data) - 1) : Elem(tNumsArray, b) = Len(Elem(data, b))

\* C1: the plan makeTruncationNums returns has an estimated error within
\* maximumError, or some block of it uses all its terms.
C1_OptimizerCorrect ==
    pc = "returned" =>
        \/ estimateMaxError(dataArray, ret, jdr) <= argMaxError
        \/ SomeBlockFull(dataArray, ret)

\* C2: the loop of makeTruncationNums runs at most (total number of terms
\* + T) iterations, also with maximumError = 0 and block weights that are 0.
C2_IterationsBounded ==
    pc = "loop" => loop.i <= TotalTerms(dataArray) + Len(dataArray)

\* the scenario of C3: one block of amplitudes 10, 3, 1 and a budget of 25
Scenario ==
    /\ dataArray = <<BlockOf("fast", 3)>>
    /\ argMaxError = 25 * Unit

\* C3 as stated: in the scenario the returned plan is [1].
C3_ScenarioReturnsOne ==
    (pc = "returned" /\ Scenario) => ret = <<1>>

\* C3, amended: in the scenario the returned plan is [3]; the budget is first
\* tested in iteration i = T + 1 = 2, when all three terms are counted.
C3_ScenarioReturnsThree ==
    (pc = "returned" /\ Scenario) =>
        /\ ret = <<3>>
        /\ loop.i = 2
        /\ loop.exit = "reached"

C3_Witness == pc = "returned" /\ Scenario /\ jdr = J2000

\* the seeding pass of the run in progress has just ended
SeedingEnded == pc = "loop" /\ loop.i = Len(dataArray)

\* C10: when the seeding pass ends, plan[i] = 1 for every block with at
\* least one term.
C10_SeedingCountsLeadingTerm ==
    SeedingEnded =>
        \A b \in 0..(Len(dataArray) - 1) :
            Len(Elem(dataArray, b)) >= 1 => Elem(loop.tNumsArray, b) = 1

\* a plan of data: one whole number per block, from 0 to the block's length
WithinBlocks(data, tNumsArray) ==
    /\ Len(tNumsArray) = Len(data)
    /\ \A k \in 0..(Len(data) - 1) :
        /\ Elem(tNumsArray, k) \in Int
        /\ 0 <= Elem(tNumsArray, k)
        /\ Elem(tNumsArray, k) <= Len(Elem(data, k))

\* C11: for a model of non-empty blocks and maximumError >= 0, the plan at
\* the end of every iteration of the loop of makeTruncationNums, and the
\* plan returned, has one entry per block, each from 0 to the block's length
C11_PlanWithinBlocks ==
    /\ pc = "loop" => WithinBlocks(dataArray, loop.tNumsArray)
    /\ pc = "returned" => WithinBlocks(dataArray, ret)

\* the search has rolled back an exhausted block k (its last term was
\* weighed again, for a reduction of 0, and its count is one below the
\* block's length) while another block is counted in full
C11_Witness ==
    /\ pc \in {"loop", "returned"}
    /\ loop.i > Len(dataArray)
    /\ argMaxError >= 0
    /\ \E k \in 0..(Len(dataArray) - 1) :
        /\ Len(Elem(dataArray, k)) >= 2
        /\ Elem(loop.tNumsArray, k) = Len(Elem(dataArray, k)) - 1
        /\ Elem(loop.reductionsArray, k) = 0
        /\ Elem(loop.accuracysArray, k)
               = Accuracy(dataArray, k, Len(Elem(dataArray, k)), jdr)
        /\ Elem(loop.accuracysArray, k) # 0
        /\ \E j \in 0..(Len(dataArray) - 1) :
            j # k /\ Elem(loop.tNumsArray, j) = Len(Elem(dataArray, j))

-----------------------------------------------------------------------------
(* calc and estimateMaxError called directly on a model and a plan *)

\* the models of the direct calls: the blocks of one model are cut from the
\* same series
EstModels ==
    UNION {{[b \in 1..T |-> BlockOf(s, f[b])] :
                s \in SeriesNames, f \in [1..T -> 1..MaxTerms]} :
           T \in 1..MaxBlocks}

\* the plans the direct calls start from: absent, or all zero with one entry
\* per block or the last entry missing
StartPlans(data) ==
    {Undefined} \cup {Zeros(n) : n \in (Len(data) - 1)..Len(data)}

InitEst ==
    /\ jdr \in Times
    /\ pc = "idle"
    /\ dataArray \in EstModels
    /\ tNumsArg \in StartPlans(dataArray)
    /\ argMaxError = 0
    /\ loop = NoLoop
    /\ ret = Undefined
    /\ value = 0
    /\ moon = NoMoon

\* calculator.estimateMaxError(dataArray, tNumsArg)
EstimateMaxError ==
    /\ pc \in {"idle", "calculated"}
    /\ value' = estimateMaxError(dataArray, tNumsArg, jdr)
    /\ pc' = "estimated"
    /\ UNCHANGED <<jdr, dataArray, tNumsArg, argMaxError, loop, ret, moon>>

\* calculator.calc(dataArray, tNumsArg)
Calc ==
    /\ pc \in {"idle", "estimated"}
    /\ value' = calc(dataArray, tNumsArg, jdr)
    /\ pc' = "calculated"
    /\ UNCHANGED <<jdr, dataArray, tNumsArg, argMaxError, loop, ret, moon>>

\* the caller raises one entry of the plan by one, up to one past the end
\* of its block, and estimates again
RaiseAndEstimate ==
    /\ pc = "estimated"
    /\ tNumsArg # Undefined
    /\ \E b \in 0..(Len(tNumsArg) - 1) :
        /\ Elem(tNumsArg, b) <= Len(Elem(dataArray, b))
        /\ tNumsArg' = Upd(tNumsArg, b, Elem(tNumsArg, b) + 1)
    /\ value' = estimateMaxError(dataArray, tNumsArg', jdr)
    /\ pc' = "estimated"
    /\ UNCHANGED <<jdr, dataArray, argMaxError, loop, ret, moon>>

NextEst == EstimateMaxError \/ Calc \/ RaiseAndEstimate

SpecEst == InitEst /\ [][NextEst]_vars

-----------------------------------------------------------------------------
(* Claims about estimateMaxError and calc, checked under SpecEst *)

\* this step raises entry b of the plan by one, within block b
RaisesEntry(b) ==
    /\ pc = "estimated" /\ pc' = "estimated"
    /\ b < Len(tNumsArg)
    /\ Elem(tNumsArg, b) < Len(Elem(dataArray, b))
    /\ tNumsArg' = Upd(tNumsArg, b, Elem(tNumsArg, b) + 1)

\* C4: with non-negative block weights, raising one entry of the plan by
\* one (also from 0 to 1) never increases estimateMaxError.
C4_EstimateNonIncreasing ==
    [][\A b \in 0..(Len(dataArray) - 1) :
          (RaisesEntry(b) /\ JDEC(jdr) >= 0) => value' <= value]_vars

\* sqrt(n + 1) * A(n + 1) <= sqrt(n) * A(n) in block b, for n >= 1
FallsFastEnough(data, b, n) ==
    /\ n >= 1
    /\ Sqrt(n + 1) * Elem(Elem(data, b), n)[1]
           <= Sqrt(n) * Elem(Elem(data, b), n - 1)[1]

\* C4, amended: with non-negative block weights, raising an entry n >= 1 of
\* the plan by one does not increase estimateMaxError when the amplitudes of
\* the block fall fast enough: sqrt(n + 1) * A(n + 1) <= sqrt(n) * A(n).
C4_EstimateNonIncreasingWhenFalling ==
    [][\A b \in 0..(Len(dataArray) - 1) :
          (/\ RaisesEntry(b)
           /\ JDEC(jdr) >= 0
           /\ FallsFastEnough(dataArray, b, Elem(tNumsArg, b)))
          => value' <= value]_vars

C4_Witness ==
    /\ pc = "estimated"
    /\ jdr = JDOfCentury(1)
    /\ dataArray = <<BlockOf("fast", 3), BlockOf("fast", 2)>>
    /\ tNumsArg = <<3, 2>>
    /\ value = estimateMaxError(dataArray, <<3, 2>>, jdr)
    /\ value < estimateMaxError(dataArray, <<2, 2>>, jdr)
    /\ value < estimateMaxError(dataArray, <<3, 1>>, jdr)

\* the plan with its entries 0 made absent
ZeroAsAbsent(tNumsArray) ==
    IF tNumsArray = Undefined THEN Undefined
    ELSE [k \in DOMAIN tNumsArray |->
             IF tNumsArray[k] = 0 THEN UndefinedEntry ELSE tNumsArray[k]]

\* C5: calc treats an entry plan[i] = 0 exactly like an absent entry: all
\* terms of block i are summed.
C5_ZeroMeansAllTerms ==
    pc = "calculated" =>
        value = calc(dataArray, ZeroAsAbsent(tNumsArg), jdr)

\* len(blocks[b]) for an absent entry, min(plan[b], len(blocks[b])) otherwise
EffectiveCount(data, tNumsArray, b) ==
    IF tNumsArray = Undefined \/ b >= Len(tNumsArray)
    THEN Len(Elem(data, b))
    ELSE IF Elem(tNumsArray, b) > Len(Elem(data, b))
         THEN Len(Elem(data, b))
         ELSE Elem(tNumsArray, b)

RECURSIVE SumOfBlocks(_, _, _, _)
SumOfBlocks(data, tNumsArray, jd, b) ==
    IF b >= Len(data) THEN 0
    ELSE MulQ(BlockSum(Elem(data, b), EffectiveCount(data, tNumsArray, b), jd),
              JDECP(jd, b))
         + SumOfBlocks(data, tNumsArray, jd, b + 1)

\* C5, amended: calc sums len(blocks[i]) terms of block i when plan[i] is
\* absent and min(plan[i], len(blocks[i])) terms otherwise; an entry 0 sums
\* no term of the block.
C5_ZeroMeansNoTerm ==
    pc = "calculated" =>
        /\ value = SumOfBlocks(dataArray, tNumsArg, jdr, 0)
        /\ (tNumsArg = Zeros(Len(dataArray)) => value = 0)

C5_Witness ==
    /\ pc = "calculated"
    /\ tNumsArg # Undefined
    /\ \E b \in 0..(Len(tNumsArg) - 1) : Elem(tNumsArg, b) = 0
    /\ value # calc(dataArray, Undefined, jdr)
    /\ value # 0

-----------------------------------------------------------------------------
(* makeSafeTruncationNums called directly, one iteration at a time *)

\* the models of these calls: one or two blocks, so that the weights t^i of
\* every sampled time are on the fixed-point grid
SafeModels == {m \in EstModels : Len(m) <= 2}

\* the error budgets of these calls
SafeBudgets == {0, 5 * Unit, 300 * Unit, 800 * Unit}

InitSafe ==
    /\ jdr \in {JDOfCentury(0), JDOfCentury(1)}
    /\ pc = "idle"
    /\ dataArray = <<>>
    /\ tNumsArg = Undefined
    /\ argMaxError = 0
    /\ loop = NoLoop
    /\ ret = Undefined
    /\ value = 0
    /\ moon = NoMoon

\* makeSafeTruncationNums(dataArray, maximumError): entry
SafeCall ==
    /\ pc = "idle"
    /\ \E data \in SafeModels, maximumError \in SafeBudgets \cup {-Unit} :
        /\ dataArray' = data
        /\ argMaxError' = maximumError
        /\ loop' = SafeStart(maximumError)
    /\ pc' = "safe"
    /\ UNCHANGED <<jdr, tNumsArg, ret, value, moon>>

\* one iteration: a call of makeMeanTruncationNums, estimateMaxError on its
\* result, and the halving or the break; leaving the loop returns tNumsArray
SafeIter ==
    /\ pc = "safe"
    /\ \E n \in {SafeStep(dataArray, jdr, loop)} :
           /\ loop' = n.st
           /\ jdr' = n.jdr
           /\ pc' = CASE n.st.exit = "none"     -> "safe"
                      [] n.st.exit = "returned" -> "returned"
                      [] n.st.exit = "thrown"   -> "thrown"
                      [] OTHER                  -> "never"
           /\ ret' = IF n.st.exit = "returned" THEN n.st.tNumsArray ELSE ret
    /\ UNCHANGED <<dataArray, tNumsArg, argMaxError, value, moon>>

NextSafe == SafeCall \/ SafeIter

SpecSafe == InitSafe /\ [][NextSafe]_vars

\* the power 2^k
RECURSIVE Pow2(_)
Pow2(k) == IF k = 0 THEN 1 ELSE 2 * Pow2(k - 1)

\* the time context the averager leaves: that of its last sample
LastSample == SampleTime(SampleCount - 1)

\* C8: makeSafeTruncationNums calls the averager at most 5 times, the k-th
\* call with the budget maxError / 2^(k-1); every call but the last gave a
\* plan whose estimated error exceeds its budget; the call returns the plan
\* of its last averager call, which either meets its budget or is the 5th;
\* no error is raised for a valid budget
C8_SafeRetries ==
    /\ pc \in {"safe", "returned"} =>
        /\ Len(loop.history) <= SafeRounds
        /\ \A k \in 1..Len(loop.history) :
            /\ loop.history[k].maximumError = argMaxError \div Pow2(k - 1)
            /\ loop.history[k].tNumsArray =
                   makeMeanTruncationNums(dataArray, argMaxError \div Pow2(k - 1),
                                          jdr).tNumsArray
            /\ loop.history[k].trueMaxError =
                   estimateMaxError(dataArray, loop.history[k].tNumsArray,
                                    LastSample)
            /\ (k < Len(loop.history) \/ pc = "safe") =>
                   loop.history[k].trueMaxError > loop.history[k].maximumError
    /\ pc = "safe" => Len(loop.history) < SafeRounds
    /\ pc = "returned" =>
        /\ Len(loop.history) >= 1
        /\ ret = loop.history[Len(loop.history)].tNumsArray
        /\ \/ loop.history[Len(loop.history)].trueMaxError
                  <= loop.history[Len(loop.history)].maximumError
           \/ Len(loop.history) = SafeRounds
    /\ (pc \in {"thrown", "never"}) => argMaxError < 0

\* a call that returned a plan meeting its budget after at least one retry
C8_Witness ==
    /\ pc = "returned"
    /\ Len(loop.history) >= 2
    /\ loop.history[Len(loop.history)].trueMaxError
           <= loop.history[Len(loop.history)].maximumError

\* a call that returned the plan of its 5th iteration, over budget
C8_FifthPlan ==
    /\ pc = "returned"
    /\ Len(loop.history) = SafeRounds
    /\ loop.history[SafeRounds].trueMaxError > loop.history[SafeRounds].maximumError

-----------------------------------------------------------------------------
(* ELP2000MoonGECC.  The object shares its calculator's time context at    *)
(* construction and after `set obTime`; the calculator's own jdr is the     *)
(* variable jdr.  The series tables data/l, data/b, data/r are static data  *)
(* outside the code modelled here: small tables stand for them.             *)

LData == <<BlockOf("fast", 3), BlockOf("fast", 2)>>

BData == <<BlockOf("slow", 3), BlockOf("slow", 1)>>

RData == <<BlockOf("flat", 2), BlockOf("flat", 2)>>

Items == {"l", "b", "r"}

\* this.private[item].data
DataOf(item) ==
    CASE item = "l" -> LData
      [] item = "b" -> BData
      [] OTHER      -> RData

\* the keys the getters cache under
CacheKeys == {"l", "b", "r", "meanLongitude",
              "longitudePerturbationCorrection",
              "longitudePrecessionCorrection"}

\* CacheSpaceOnJDate by its use: an entry is <<v>> when set, <<>> when not
CacheClear == [k \in CacheKeys |-> <<>>]

CacheHas(cache, key) == cache[key] # <<>>

CacheGet(cache, key) == cache[key][1]

CacheSet(cache, key, v) == [cache EXCEPT ![key] = <<v>>]

\* cache.remove(item) for an item of Items
CacheRemove(cache, key) == [cache EXCEPT ![key] = <<>>]

\* the object after `new ELP2000MoonGECC(jdate)`
NewMoon(jdate) ==
    [jdate |-> jdate, cache |-> CacheClear, accuracy |-> "complete",
     l |-> Undefined, b |-> Undefined, r |-> Undefined]

\* the mean longitude: a polynomial in jdate.JDEC alone, kept as the
\* argument it is evaluated at
MeanLongitudeAt(jdate) == <<"meanLongitude", JDEC(jdate)>>

\* the precession correction: a polynomial in jdate.JDEC alone, kept as the
\* argument it is evaluated at
LongitudePrecessionCorrectionAt(jdate) ==
    <<"longitudePrecessionCorrection", JDEC(jdate)>>

\* `get meanLongitude`: the object after the read
meanLongitude(m) ==
    IF CacheHas(m.cache, "meanLongitude") THEN m
    ELSE [m EXCEPT !.cache =
             CacheSet(@, "meanLongitude", MeanLongitudeAt(m.jdate))]

\* `get longitudePrecessionCorrection`: the object after the read
longitudePrecessionCorrection(m) ==
    IF CacheHas(m.cache, "longitudePrecessionCorrection") THEN m
    ELSE [m EXCEPT !.cache =
             CacheSet(@, "longitudePrecessionCorrection",
                      LongitudePrecessionCorrectionAt(m.jdate))]

\* `get longitudePerturbationCorrection` with the calculator at time jd:
\* the object after the read
longitudePerturbationCorrection(m, jd) ==
    IF CacheHas(m.cache, "longitudePerturbationCorrection") THEN m
    ELSE [m EXCEPT !.cache =
             CacheSet(@, "longitudePerturbationCorrection",
                      calc(LData, m.l, jd))]

\* the sum `l` of get l, kept as its addends (radians and arc seconds are
\* not added up on the grid); fit: whether the correction of the years
\* 3000 to 5000 is added (`jdate.JDEC > 10`)
LongitudeSum(m) ==
    [meanLongitude |-> CacheGet(m.cache, "meanLongitude"),
     longitudePrecessionCorrection |->
         CacheGet(m.cache, "longitudePrecessionCorrection"),
     longitudePerturbationCorrection |->
         CacheGet(m.cache, "longitudePerturbationCorrection"),
     fit |-> JDEC(m.jdate) > 10 * Unit]

\* `get l` with the calculator at time jd: the object after the read
l(m, jd) ==
    IF CacheHas(m.cache, "l") THEN m
    ELSE Only({[read EXCEPT !.cache = CacheSet(@, "l", LongitudeSum(read))] :
               read \in {longitudePerturbationCorrection(
                            longitudePrecessionCorrection(meanLongitude(m)),
                            jd)}})

\* `get b` and `get r` with the calculator at time jd: the object after
\* the read
b(m, jd) ==
    IF CacheHas(m.cache, "b") THEN m
    ELSE [m EXCEPT !.cache = CacheSet(@, "b", calc(BData, m.b, jd))]

r(m, jd) ==
    IF CacheHas(m.cache, "r") THEN m
    ELSE [m EXCEPT !.cache = CacheSet(@, "r", calc(RData, m.r, jd))]

\* the levels `set accuracy` accepts
Levels == {"low", "normal", "high", "fine", "complete"}

\* the arrays `set accuracy` assigns
Preset(level, item) ==
    CASE level = "low" /\ item = "l"    -> <<39, 13, 4, 2>>
      [] level = "low" /\ item = "b"    -> <<54, 5, 3>>
      [] level = "low" /\ item = "r"    -> <<46, 12, 4>>
      [] level = "normal" /\ item = "l" -> <<44, 13, 4, 2>>
      [] level = "normal" /\ item = "b" -> <<65, 8, 9>>
      [] level = "normal" /\ item = "r" -> <<62, 21, 8>>
      [] level = "high" /\ item = "l"   -> <<51, 13, 4, 2>>
      [] level = "high" /\ item = "b"   -> <<69, 8, 12>>
      [] level = "high" /\ item = "r"   -> <<77, 38, 11>>
      [] level = "fine" /\ item = "l"   -> <<62, 13, 4, 2>>
      [] level = "fine" /\ item = "b"   -> <<74, 8, 12>>
      [] level = "fine" /\ item = "r"   -> <<87, 39, 11>>

\* the switch of `set accuracy`: 'complete' breaks without an assignment
WithPresets(m, level) ==
    IF level = "complete" THEN m
    ELSE [m EXCEPT !.l = Preset(level, "l"),
                   !.b = Preset(level, "b"),
                   !.r = Preset(level, "r")]

\* `set accuracy(level)` for a level of Levels
accuracy(m, level) ==
    IF level # m.accuracy
    THEN [WithPresets(m, level) EXCEPT !.cache = CacheClear,
                                       !.accuracy = level]
    ELSE WithPresets(m, level)

\* setTruncation(item, tNumsArray) for an item of Items
setTruncation(m, item, tNumsArray) ==
    [m EXCEPT ![item] = tNumsArray,
              !.cache = CacheRemove(@, item),
              !.accuracy = "custom"]

\* the modes setMaxError accepts
Modes == {"true", "mean", "safe"}

\* the observation times of the moon object: 1 and 11 centuries after J2000
MoonTimes == {JDOfCentury(1), JDOfCentury(11)}

\* the arrays given to setTruncation
MoonPlans == {<<1, 1>>, <<2, 0>>}

\* the values given to setMaxError (fixed point)
MoonBudgets == {5 * Unit}

\* the calls of the averager and of the refiner that setMaxError can make,
\* each computed once: neither reads the time the calculator is at
MeanCalls ==
    [item \in Items |-> [maximumError \in MoonBudgets |->
        makeMeanTruncationNums(DataOf(item), maximumError, J2000)]]

SafeCalls ==
    [item \in Items |-> [maximumError \in MoonBudgets |->
        makeSafeTruncationNums(DataOf(item), maximumError, J2000)]]

\* the switch of setMaxError with the calculator at time jd: how the
\* calculator's call ends, its array and the calculator's jdr afterwards
MakeByMode(mode, item, maximumError, jd) ==
    CASE mode = "true" ->
            Only({[end |-> made.end, tNumsArray |-> made.tNumsArray,
                   jdr |-> jd] :
                  made \in {makeTruncationNums(DataOf(item), maximumError, jd)}})
      [] mode = "mean" -> MeanCalls[item][maximumError]
      [] OTHER         -> SafeCalls[item][maximumError]

InitMoon ==
    /\ jdr \in MoonTimes
    /\ moon = NewMoon(jdr)
    /\ pc = "idle"
    /\ dataArray = <<>>
    /\ tNumsArg = Undefined
    /\ argMaxError = 0
    /\ loop = NoLoop
    /\ ret = Undefined
    /\ value = 0

\* a call can be made when the last one returned or threw
Callable == pc \in {"idle", "thrown"}

GetL ==
    /\ Callable
    /\ moon' = l(moon, jdr)
    /\ pc' = "idle"
    /\ UNCHANGED <<jdr, dataArray, tNumsArg, argMaxError, loop, ret, value>>

GetB ==
    /\ Callable
    /\ moon' = b(moon, jdr)
    /\ pc' = "idle"
    /\ UNCHANGED <<jdr, dataArray, tNumsArg, argMaxError, loop, ret, value>>

GetR ==
    /\ Callable
    /\ moon' = r(moon, jdr)
    /\ pc' = "idle"
    /\ UNCHANGED <<jdr, dataArray, tNumsArg, argMaxError, loop, ret, value>>

GetLongitudePerturbationCorrection ==
    /\ Callable
    /\ moon' = longitudePerturbationCorrection(moon, jdr)
    /\ pc' = "idle"
    /\ UNCHANGED <<jdr, dataArray, tNumsArg, argMaxError, loop, ret, value>>

\* `set obTime(jdr)`: cache.on drops what was cached for the old time
SetObTime ==
    /\ Callable
    /\ \E jdate \in MoonTimes :
        /\ moon' = [moon EXCEPT !.cache = CacheClear, !.jdate = jdate]
        /\ jdr' = jdate
    /\ pc' = "idle"
    /\ UNCHANGED <<dataArray, tNumsArg, argMaxError, loop, ret, value>>

SetTruncation ==
    /\ Callable
    /\ \E item \in Items \cup {"x"}, plan \in MoonPlans :
        IF item \notin Items
        THEN pc' = "thrown" /\ moon' = moon
        ELSE pc' = "idle" /\ moon' = setTruncation(moon, item, plan)
    /\ UNCHANGED <<jdr, dataArray, tNumsArg, argMaxError, loop, ret, value>>

\* setMaxError(item, value, mode): the three checks, the calculator's call,
\* then the assignment, cache.remove and the level; a call of the calculator
\* that throws or never returns leaves the object as it was
SetMaxError ==
    /\ Callable
    /\ \E item \in Items \cup {"x"}, maximumError \in MoonBudgets \cup {-Unit},
          mode \in Modes \cup {"other"} :
        IF item \notin Items \/ maximumError < 0 \/ mode \notin Modes
        THEN pc' = "thrown" /\ moon' = moon /\ jdr' = jdr
        ELSE \E made \in {MakeByMode(mode, item, maximumError, jdr)} :
                /\ jdr' = made.jdr
                /\ IF made.end = "returned"
                   THEN /\ pc' = "idle"
                        /\ moon' = setTruncation(moon, item, made.tNumsArray)
                   ELSE /\ pc' = made.end
                        /\ moon' = moon
    /\ UNCHANGED <<dataArray, tNumsArg, argMaxError, loop, ret, value>>

\* `set accuracy(level)`; 'custom' is not a level the setter accepts
SetAccuracy ==
    /\ Callable
    /\ \E level \in Levels \cup {"custom"} :
        IF level \notin Levels
        THEN pc' = "thrown" /\ moon' = moon
        ELSE pc' = "idle" /\ moon' = accuracy(moon, level)
    /\ UNCHANGED <<jdr, dataArray, tNumsArg, argMaxError, loop, ret, value>>

NextMoon ==
    \/ GetL
    \/ GetB
    \/ GetR
    \/ GetLongitudePerturbationCorrection
    \/ SetObTime
    \/ SetTruncation
    \/ SetMaxError
    \/ SetAccuracy

SpecMoon == InitMoon /\ [][NextMoon]_vars

\* C6: after a call returned or threw, the calculator's time context is the
\* observation time of the moon object, so that its reads are evaluated
\* at that time
C6_TimeContextKept ==
    pc \in {"idle", "thrown"} => jdr = moon.jdate

\* C7: when the accuracy getter returns 'complete' the truncation arrays of
\* l, b and r are unset
C7_CompleteMeansNoTruncation ==
    moon.accuracy = "complete" =>
        moon.l = Undefined /\ moon.b = Undefined /\ moon.r = Undefined

\* what a read of item caches that depends on the item's truncation array
SeriesPart(item) ==
    IF item = "l"
    THEN CacheGet(moon.cache, "l").longitudePerturbationCorrection
    ELSE CacheGet(moon.cache, item)

\* the cached value of item is the one of its present truncation array, at
\* the observation time or at the time the calculator is at
FromPresentPlan(item) ==
    CacheHas(moon.cache, item) =>
        \E jd \in {moon.jdate, jdr} :
            SeriesPart(item) = calc(DataOf(item), moon[item], jd)

\* C9: what a read of l, b or r returns (the value it finds or leaves in the
\* cache) is computed with the truncation array last set for the item
C9_ReadUsesPresentPlan ==
    pc \in {"idle", "thrown"} => \A item \in Items : FromPresentPlan(item)

\* the reads of b and r return values of the present truncation array
LatitudeAndDistanceFresh ==
    pc \in {"idle", "thrown"} => FromPresentPlan("b") /\ FromPresentPlan("r")

====
